---- MODULE Spec2Model ----
(***************************************************************************)
(* Model of the dyn-symbol crate (src/src/lib.rs): the Symbol enum, its    *)
(* value-semantics trait implementations (Clone, Debug, PartialEq, Ord,    *)
(* PartialOrd, Hash), its downcast helpers, and the namespace              *)
(* implementations the crate ships in its test module (ClassN<N>,          *)
(* TestDynamic<N>).                                                        *)
(*                                                                         *)
(* Strings are sequences of bytes (a Rust String is its UTF-8 bytes).      *)
(* A TypeId is an opaque number: which number each concrete type gets is   *)
(* decided by the build, so it is chosen nondeterministically in Init.     *)
(***************************************************************************)
EXTENDS Integers, Sequences, FiniteSets

VARIABLES
    type_id,    \* the build's TypeId of every concrete type
    a, b,       \* the two symbols the operations are applied to
    op,         \* the operation applied last ("init" before any)
    arg,        \* the type parameter T of the last downcast ("none" otherwise)
    res,        \* what the last operation returned
    calls,      \* the trait-object calls the last operation made, in order
    panicked    \* whether the last operation panicked

vars == <<type_id, a, b, op, arg, res, calls, panicked>>

----------------------------------------------------------------------------
\* Bounds of the model.

\* Static symbol ids range over 0..MaxId.
MaxId == 1

\* Dynamic symbol strings have at most MaxStrLen bytes.
MaxStrLen == 2

\* The bytes dynamic symbol strings are built from: "a", "b".
Alphabet == {97, 98}

----------------------------------------------------------------------------
\* Concrete types and their values.

StaticTypes == {"ClassN<1>", "ClassN<2>"}

DynamicTypes == {"TestDynamic<0>", "TestDynamic<1>"}

Types == StaticTypes \cup DynamicTypes

\* Every way a build can number the types: TypeIds are distinct per type.
TypeIdAssignments ==
    {f \in [Types -> 1..Cardinality(Types)] :
        \A s, t \in Types : s # t => f[s] # f[t]}

\* ClassN { class_name: "A", names: &["0", "1"] }
STATIC_NS_CLASS_A ==
    [type |-> "ClassN<1>", class_name |-> <<65>>, names |-> << <<48>>, <<49>> >>]

\* ClassN { class_name: "B", names: &["0"] }
STATIC_NS_CLASS_B ==
    [type |-> "ClassN<2>", class_name |-> <<66>>, names |-> << <<48>> >>]

\* A second value of the type ClassN<1>, with other content:
\* ClassN { class_name: "C", names: &["1", "0"] }
STATIC_NS_CLASS_A_ALT ==
    [type |-> "ClassN<1>", class_name |-> <<67>>, names |-> << <<49>>, <<48>> >>]

StaticNamespaces == {STATIC_NS_CLASS_A, STATIC_NS_CLASS_B, STATIC_NS_CLASS_A_ALT}

Static(ns, id) == [variant |-> "Static", ns |-> ns, id |-> id]

Dynamic(instance) == [variant |-> "Dynamic", instance |-> instance]

\* TestDynamic::<N>(str, name)
TestDynamic(type, str, name) == [type |-> type, f0 |-> str, f1 |-> name]

\* Symbol::Dynamic(Box::new(TestDynamic::<0>(str.into(), "dyn0")))
sym0(str) == Dynamic(TestDynamic("TestDynamic<0>", str, <<100, 121, 110, 48>>))

\* Symbol::Dynamic(Box::new(TestDynamic::<1>(str.into(), "dyn1")))
sym1(str) == Dynamic(TestDynamic("TestDynamic<1>", str, <<100, 121, 110, 49>>))

Strings == UNION {[1..n -> Alphabet] : n \in 0..MaxStrLen}

StaticSymbols == {Static(ns, id) : ns \in StaticNamespaces, id \in 0..MaxId}

DynamicSymbols == {sym0(s) : s \in Strings} \cup {sym1(s) : s \in Strings}

Symbols == StaticSymbols \cup DynamicSymbols

IsStatic(sym) == sym.variant = "Static"

IsDynamic(sym) == sym.variant = "Dynamic"

----------------------------------------------------------------------------
\* std: Any, Ordering, slices.

\* Any::type_id of a trait object: the TypeId of its concrete type.
TypeIdOf(obj) == type_id[obj.type]

\* Ord::cmp of two integers (u32, TypeId).
int_cmp(x, y) == IF x < y THEN "Less" ELSE IF x = y THEN "Equal" ELSE "Greater"

\* Ord::cmp of two strings: bytewise lexicographic, then by length.
str_cmp(s, t) ==
    LET n == IF Len(s) < Len(t) THEN Len(s) ELSE Len(t)
        diff == {i \in 1..n : s[i] # t[i]}
    IN  IF diff = {}
        THEN int_cmp(Len(s), Len(t))
        ELSE LET i == CHOOSE j \in diff : \A k \in diff : j <= k
             IN  int_cmp(s[i], t[i])

\* <dyn Any>::downcast_ref::<T>(): present iff the concrete type is T.
downcast_ref(obj, T) ==
    IF TypeIdOf(obj) = type_id[T]
    THEN [some |-> TRUE, val |-> <<obj>>]
    ELSE [some |-> FALSE, val |-> <<>>]

\* The record of a call made through a trait object.
Call(fn, args, ret) == [fn |-> fn, args |-> args, ret |-> <<ret>>]

TypeIdCall(obj) == Call("type_id", <<obj>>, TypeIdOf(obj))

----------------------------------------------------------------------------
\* std::hash::Hasher: the state of a hasher is the sequence of writes it was fed.

Write(w, data) == [w |-> w, data |-> data]

\* <TypeId as Hash>::hash: one write of the id's 64-bit value.
TypeId_hash(tid, state) == Append(state, Write("write_u64", <<tid>>))

\* Hasher::write_u32
write_u32(state, i) == Append(state, Write("write_u32", <<i>>))

----------------------------------------------------------------------------
\* impl namespace::Static for ClassN<N>

Static_namespace_name(ns) == ns.class_name

\* self.names[id as usize]: indexing out of bounds panics.
Static_symbol_name(ns, id) ==
    IF id < Len(ns.names)
    THEN [panic |-> FALSE, ret |-> ns.names[id + 1]]
    ELSE [panic |-> TRUE, ret |-> <<>>]

----------------------------------------------------------------------------
\* impl namespace::Dynamic for TestDynamic<N>

Dynamic_namespace_name(self) == self.f1

Dynamic_symbol_name(self) == self.f0

\* Mutant of dyn_clone: the clone is built from a new, empty string.
dyn_clone_empty(self) == TestDynamic(self.type, <<>>, self.f1)

dyn_clone(self) == TestDynamic(self.type, self.f0, self.f1)

\* self.0 == rhs.downcast_ref::<TestDynamic<N>>().unwrap().0
\* (unwrap of an absent downcast panics)
dyn_eq(self, rhs) ==
    LET r == downcast_ref(rhs, self.type)
    IN  IF r.some
        THEN [panic |-> FALSE, ret |-> self.f0 = r.val[1].f0]
        ELSE [panic |-> TRUE, ret |-> FALSE]

\* self.0.cmp(&rhs.downcast_ref::<TestDynamic<N>>().unwrap().0)
dyn_cmp(self, rhs) ==
    LET r == downcast_ref(rhs, self.type)
    IN  IF r.some
        THEN [panic |-> FALSE, ret |-> str_cmp(self.f0, r.val[1].f0)]
        ELSE [panic |-> TRUE, ret |-> "Equal"]

\* state.write(self.0.as_bytes()); state.write_u8(0xff)
dyn_hash(self, state) ==
    Append(Append(state, Write("write", self.f0)), Write("write_u8", <<255>>))

----------------------------------------------------------------------------
\* impl Symbol

\* Mutant of downcast_static: the namespace is cast without checking its type.
downcast_static_unchecked(sym, T) ==
    IF IsStatic(sym)
    THEN [some |-> TRUE, val |-> <<sym.ns, sym.id>>]
    ELSE [some |-> FALSE, val |-> <<>>]

\* Symbol::downcast_static::<T>
downcast_static(sym, T) ==
    IF IsStatic(sym)
    THEN LET r == downcast_ref(sym.ns, T)
         IN  IF r.some
             THEN [some |-> TRUE, val |-> <<r.val[1], sym.id>>]
             ELSE [some |-> FALSE, val |-> <<>>]
    ELSE [some |-> FALSE, val |-> <<>>]

\* Symbol::downcast_dyn::<T>
downcast_dyn(sym, T) ==
    IF IsStatic(sym)
    THEN [some |-> FALSE, val |-> <<>>]
    ELSE downcast_ref(sym.instance, T)

\* impl Clone for Symbol
clone(sym) ==
    IF IsStatic(sym)
    THEN [ret |-> Static(sym.ns, sym.id), calls |-> <<>>]
    ELSE LET c == dyn_clone(sym.instance)
         IN  [ret |-> Dynamic(c),
              calls |-> <<Call("dyn_clone", <<sym.instance>>, c)>>]

\* fmt::write: the literal pieces of the format string interleaved with the
\* formatted arguments, written to the formatter in order.
RECURSIVE fmt_write(_, _, _)
fmt_write(out, pieces, args) ==
    IF pieces = <<>> /\ args = <<>> THEN out
    ELSE IF pieces = <<>> THEN fmt_write(out \o Head(args), <<>>, Tail(args))
    ELSE IF args = <<>> THEN fmt_write(out \o Head(pieces), Tail(pieces), <<>>)
    ELSE fmt_write(out \o Head(pieces) \o Head(args), Tail(pieces), Tail(args))

\* Mutant of FormatPieces: the format string "{}:{}".
FormatPiecesOneColon == << <<>>, <<58>> >>

\* The pieces of the format string "{}::{}": "" before the first argument,
\* "::" before the second.
FormatPieces == << <<>>, <<58, 58>> >>

\* impl Debug for Symbol: write!(f, "{}::{}", namespace name, symbol name).
\* The arguments are evaluated before anything is written.
fmt(sym, f) ==
    IF IsStatic(sym)
    THEN LET ns == Static_namespace_name(sym.ns)
             name == Static_symbol_name(sym.ns, sym.id)
             cs == <<Call("namespace_name", <<sym.ns>>, ns),
                     Call("symbol_name", <<sym.ns, sym.id>>, name.ret)>>
         IN  IF name.panic
             THEN [out |-> f, calls |-> cs, panic |-> TRUE]
             ELSE [out |-> fmt_write(f, FormatPieces, <<ns, name.ret>>),
                   calls |-> cs, panic |-> FALSE]
    ELSE LET ns == Dynamic_namespace_name(sym.instance)
             name == Dynamic_symbol_name(sym.instance)
         IN  [out |-> fmt_write(f, FormatPieces, <<ns, name>>),
              calls |-> <<Call("namespace_name", <<sym.instance>>, ns),
                          Call("symbol_name", <<sym.instance>>, name)>>,
              panic |-> FALSE]

\* Mutant of eq: static ids compared with <= instead of ==.
eq_le(this, rhs) ==
    IF IsStatic(this) /\ IsStatic(rhs)
    THEN IF this.id <= rhs.id
         THEN [ret |-> TypeIdOf(this.ns) = TypeIdOf(rhs.ns),
               calls |-> <<TypeIdCall(this.ns), TypeIdCall(rhs.ns)>>,
               panic |-> FALSE]
         ELSE [ret |-> FALSE, calls |-> <<>>, panic |-> FALSE]
    ELSE IF IsDynamic(this) /\ IsDynamic(rhs)
    THEN LET ids == <<TypeIdCall(this.instance), TypeIdCall(rhs.instance)>>
         IN  IF TypeIdOf(this.instance) = TypeIdOf(rhs.instance)
             THEN LET r == dyn_eq(this.instance, rhs.instance)
                  IN  [ret |-> r.ret,
                       calls |-> Append(ids,
                           Call("dyn_eq", <<this.instance, rhs.instance>>, r.ret)),
                       panic |-> r.panic]
             ELSE [ret |-> FALSE, calls |-> ids, panic |-> FALSE]
    ELSE [ret |-> FALSE, calls |-> <<>>, panic |-> FALSE]

\* Mutant of eq: static namespaces compared by value instead of by type_id.
eq_by_content(this, rhs) ==
    IF IsStatic(this) /\ IsStatic(rhs)
    THEN [ret |-> this.id = rhs.id /\ this.ns = rhs.ns,
          calls |-> <<>>, panic |-> FALSE]
    ELSE IF IsDynamic(this) /\ IsDynamic(rhs)
    THEN LET ids == <<TypeIdCall(this.instance), TypeIdCall(rhs.instance)>>
         IN  IF TypeIdOf(this.instance) = TypeIdOf(rhs.instance)
             THEN LET r == dyn_eq(this.instance, rhs.instance)
                  IN  [ret |-> r.ret,
                       calls |-> Append(ids,
                           Call("dyn_eq", <<this.instance, rhs.instance>>, r.ret)),
                       panic |-> r.panic]
             ELSE [ret |-> FALSE, calls |-> ids, panic |-> FALSE]
    ELSE [ret |-> FALSE, calls |-> <<>>, panic |-> FALSE]

\* Mutant of eq: dyn_eq called without comparing the type_ids first.
eq_unchecked(this, rhs) ==
    IF IsStatic(this) /\ IsStatic(rhs)
    THEN IF this.id = rhs.id
         THEN [ret |-> TypeIdOf(this.ns) = TypeIdOf(rhs.ns),
               calls |-> <<TypeIdCall(this.ns), TypeIdCall(rhs.ns)>>,
               panic |-> FALSE]
         ELSE [ret |-> FALSE, calls |-> <<>>, panic |-> FALSE]
    ELSE IF IsDynamic(this) /\ IsDynamic(rhs)
    THEN LET r == dyn_eq(this.instance, rhs.instance)
         IN  [ret |-> r.ret,
              calls |-> <<Call("dyn_eq", <<this.instance, rhs.instance>>, r.ret)>>,
              panic |-> r.panic]
    ELSE [ret |-> FALSE, calls |-> <<>>, panic |-> FALSE]

\* impl PartialEq for Symbol
eq(this, rhs) ==
    IF IsStatic(this) /\ IsStatic(rhs)
    THEN IF this.id = rhs.id
         THEN [ret |-> TypeIdOf(this.ns) = TypeIdOf(rhs.ns),
               calls |-> <<TypeIdCall(this.ns), TypeIdCall(rhs.ns)>>,
               panic |-> FALSE]
         ELSE [ret |-> FALSE, calls |-> <<>>, panic |-> FALSE]
    ELSE IF IsDynamic(this) /\ IsDynamic(rhs)
    THEN LET ids == <<TypeIdCall(this.instance), TypeIdCall(rhs.instance)>>
         IN  IF TypeIdOf(this.instance) = TypeIdOf(rhs.instance)
             THEN LET r == dyn_eq(this.instance, rhs.instance)
                  IN  [ret |-> r.ret,
                       calls |-> Append(ids,
                           Call("dyn_eq", <<this.instance, rhs.instance>>, r.ret)),
                       panic |-> r.panic]
             ELSE [ret |-> FALSE, calls |-> ids, panic |-> FALSE]
    ELSE [ret |-> FALSE, calls |-> <<>>, panic |-> FALSE]

\* Mutant of cmp: static symbols ordered by id alone.
cmp_ids_only(this, rhs) ==
    IF IsStatic(this) /\ IsStatic(rhs)
    THEN [ret |-> int_cmp(this.id, rhs.id), calls |-> <<>>, panic |-> FALSE]
    ELSE IF IsDynamic(this) /\ IsDynamic(rhs)
    THEN LET this_type_id == TypeIdOf(this.instance)
             rhs_type_id == TypeIdOf(rhs.instance)
             ids == <<TypeIdCall(this.instance), TypeIdCall(rhs.instance)>>
         IN  IF this_type_id = rhs_type_id
             THEN LET r == dyn_cmp(this.instance, rhs.instance)
                  IN  [ret |-> r.ret,
                       calls |-> Append(ids,
                           Call("dyn_cmp", <<this.instance, rhs.instance>>, r.ret)),
                       panic |-> r.panic]
             ELSE [ret |-> int_cmp(this_type_id, rhs_type_id),
                   calls |-> ids, panic |-> FALSE]
    ELSE IF IsStatic(this)
    THEN [ret |-> "Less", calls |-> <<>>, panic |-> FALSE]
    ELSE [ret |-> "Greater", calls |-> <<>>, panic |-> FALSE]

\* Mutant of cmp: symbols of different variants ordered by their type_ids.
cmp_cross_by_type_id(this, rhs) ==
    IF IsStatic(this) /\ IsStatic(rhs)
    THEN LET this_type_id == TypeIdOf(this.ns)
             rhs_type_id == TypeIdOf(rhs.ns)
         IN  [ret |-> IF this_type_id = rhs_type_id
                      THEN int_cmp(this.id, rhs.id)
                      ELSE int_cmp(this_type_id, rhs_type_id),
              calls |-> <<TypeIdCall(this.ns), TypeIdCall(rhs.ns)>>,
              panic |-> FALSE]
    ELSE IF IsDynamic(this) /\ IsDynamic(rhs)
    THEN LET this_type_id == TypeIdOf(this.instance)
             rhs_type_id == TypeIdOf(rhs.instance)
             ids == <<TypeIdCall(this.instance), TypeIdCall(rhs.instance)>>
         IN  IF this_type_id = rhs_type_id
             THEN LET r == dyn_cmp(this.instance, rhs.instance)
                  IN  [ret |-> r.ret,
                       calls |-> Append(ids,
                           Call("dyn_cmp", <<this.instance, rhs.instance>>, r.ret)),
                       panic |-> r.panic]
             ELSE [ret |-> int_cmp(this_type_id, rhs_type_id),
                   calls |-> ids, panic |-> FALSE]
    ELSE IF IsStatic(this)
    THEN [ret |-> int_cmp(TypeIdOf(this.ns), TypeIdOf(rhs.instance)),
          calls |-> <<TypeIdCall(this.ns), TypeIdCall(rhs.instance)>>,
          panic |-> FALSE]
    ELSE [ret |-> int_cmp(TypeIdOf(this.instance), TypeIdOf(rhs.ns)),
          calls |-> <<TypeIdCall(this.instance), TypeIdCall(rhs.ns)>>,
          panic |-> FALSE]

\* Mutant of cmp: dynamic symbols always ordered by dyn_cmp.
cmp_dyn_unchecked(this, rhs) ==
    IF IsStatic(this) /\ IsStatic(rhs)
    THEN LET this_type_id == TypeIdOf(this.ns)
             rhs_type_id == TypeIdOf(rhs.ns)
         IN  [ret |-> IF this_type_id = rhs_type_id
                      THEN int_cmp(this.id, rhs.id)
                      ELSE int_cmp(this_type_id, rhs_type_id),
              calls |-> <<TypeIdCall(this.ns), TypeIdCall(rhs.ns)>>,
              panic |-> FALSE]
    ELSE IF IsDynamic(this) /\ IsDynamic(rhs)
    THEN LET r == dyn_cmp(this.instance, rhs.instance)
         IN  [ret |-> r.ret,
              calls |-> <<Call("dyn_cmp", <<this.instance, rhs.instance>>, r.ret)>>,
              panic |-> r.panic]
    ELSE IF IsStatic(this)
    THEN [ret |-> "Less", calls |-> <<>>, panic |-> FALSE]
    ELSE [ret |-> "Greater", calls |-> <<>>, panic |-> FALSE]

\* Mutant of cmp: the (Dynamic, Static) arm returns Less like the
\* (Static, Dynamic) arm.
cmp_both_less(this, rhs) ==
    IF IsStatic(this) /\ IsStatic(rhs)
    THEN LET this_type_id == TypeIdOf(this.ns)
             rhs_type_id == TypeIdOf(rhs.ns)
         IN  [ret |-> IF this_type_id = rhs_type_id
                      THEN int_cmp(this.id, rhs.id)
                      ELSE int_cmp(this_type_id, rhs_type_id),
              calls |-> <<TypeIdCall(this.ns), TypeIdCall(rhs.ns)>>,
              panic |-> FALSE]
    ELSE IF IsDynamic(this) /\ IsDynamic(rhs)
    THEN LET this_type_id == TypeIdOf(this.instance)
             rhs_type_id == TypeIdOf(rhs.instance)
             ids == <<TypeIdCall(this.instance), TypeIdCall(rhs.instance)>>
         IN  IF this_type_id = rhs_type_id
             THEN LET r == dyn_cmp(this.instance, rhs.instance)
                  IN  [ret |-> r.ret,
                       calls |-> Append(ids,
                           Call("dyn_cmp", <<this.instance, rhs.instance>>, r.ret)),
                       panic |-> r.panic]
             ELSE [ret |-> int_cmp(this_type_id, rhs_type_id),
                   calls |-> ids, panic |-> FALSE]
    ELSE [ret |-> "Less", calls |-> <<>>, panic |-> FALSE]

\* impl Ord for Symbol
cmp(this, rhs) ==
    IF IsStatic(this) /\ IsStatic(rhs)
    THEN LET this_type_id == TypeIdOf(this.ns)
             rhs_type_id == TypeIdOf(rhs.ns)
         IN  [ret |-> IF this_type_id = rhs_type_id
                      THEN int_cmp(this.id, rhs.id)
                      ELSE int_cmp(this_type_id, rhs_type_id),
              calls |-> <<TypeIdCall(this.ns), TypeIdCall(rhs.ns)>>,
              panic |-> FALSE]
    ELSE IF IsDynamic(this) /\ IsDynamic(rhs)
    THEN LET this_type_id == TypeIdOf(this.instance)
             rhs_type_id == TypeIdOf(rhs.instance)
             ids == <<TypeIdCall(this.instance), TypeIdCall(rhs.instance)>>
         IN  IF this_type_id = rhs_type_id
             THEN LET r == dyn_cmp(this.instance, rhs.instance)
                  IN  [ret |-> r.ret,
                       calls |-> Append(ids,
                           Call("dyn_cmp", <<this.instance, rhs.instance>>, r.ret)),
                       panic |-> r.panic]
             ELSE [ret |-> int_cmp(this_type_id, rhs_type_id),
                   calls |-> ids, panic |-> FALSE]
    ELSE IF IsStatic(this)
    THEN [ret |-> "Less", calls |-> <<>>, panic |-> FALSE]
    ELSE [ret |-> "Greater", calls |-> <<>>, panic |-> FALSE]

\* impl PartialOrd for Symbol: Some(self.cmp(other))
partial_cmp(this, other) ==
    LET r == cmp(this, other)
    IN  [ret |-> [some |-> TRUE, val |-> <<r.ret>>],
         calls |-> r.calls, panic |-> r.panic]

\* Mutant of hash: a static symbol hashes its namespace's name instead of
\* the namespace's type_id.
hash_by_name(sym, state) ==
    IF IsStatic(sym)
    THEN [state |-> write_u32(
                        Append(state, Write("write", Static_namespace_name(sym.ns))),
                        sym.id),
          calls |-> <<Call("namespace_name", <<sym.ns>>,
                           Static_namespace_name(sym.ns))>>]
    ELSE LET s1 == TypeId_hash(TypeIdOf(sym.instance), state)
             s2 == dyn_hash(sym.instance, s1)
         IN  [state |-> s2,
              calls |-> <<TypeIdCall(sym.instance),
                          Call("dyn_hash", <<sym.instance>>, s2)>>]

\* impl Hash for Symbol
hash(sym, state) ==
    IF IsStatic(sym)
    THEN [state |-> write_u32(TypeId_hash(TypeIdOf(sym.ns), state), sym.id),
          calls |-> <<TypeIdCall(sym.ns)>>]
    ELSE LET s1 == TypeId_hash(TypeIdOf(sym.instance), state)
             s2 == dyn_hash(sym.instance, s1)
         IN  [state |-> s2,
              calls |-> <<TypeIdCall(sym.instance),
                          Call("dyn_hash", <<sym.instance>>, s2)>>]

----------------------------------------------------------------------------
\* The state machine: two symbols are built, then operations are applied.

Init ==
    /\ type_id \in TypeIdAssignments
    /\ a \in Symbols
    /\ b \in Symbols
    /\ op = "init"
    /\ arg = "none"
    /\ res = <<>>
    /\ calls = <<>>
    /\ panicked = FALSE

\* a == b
Eq ==
    LET r == eq(a, b)
    IN  /\ op' = "eq"
        /\ arg' = "none"
        /\ res' = r.ret
        /\ calls' = r.calls
        /\ panicked' = r.panic
        /\ UNCHANGED <<type_id, a, b>>

\* a.cmp(&b)
Cmp ==
    LET r == cmp(a, b)
    IN  /\ op' = "cmp"
        /\ arg' = "none"
        /\ res' = r.ret
        /\ calls' = r.calls
        /\ panicked' = r.panic
        /\ UNCHANGED <<type_id, a, b>>

\* a.partial_cmp(&b)
PartialCmp ==
    LET r == partial_cmp(a, b)
    IN  /\ op' = "partial_cmp"
        /\ arg' = "none"
        /\ res' = r.ret
        /\ calls' = r.calls
        /\ panicked' = r.panic
        /\ UNCHANGED <<type_id, a, b>>

\* a.hash(&mut hasher_a); b.hash(&mut hasher_b), two fresh hashers of one
\* build (TestState::assert_hash_match).
Hash ==
    LET ra == hash(a, <<>>)
        rb == hash(b, <<>>)
    IN  /\ op' = "hash"
        /\ arg' = "none"
        /\ res' = [hasher_a |-> ra.state, hasher_b |-> rb.state]
        /\ calls' = ra.calls \o rb.calls
        /\ panicked' = FALSE
        /\ UNCHANGED <<type_id, a, b>>

\* a.clone()
Clone ==
    LET r == clone(a)
    IN  /\ op' = "clone"
        /\ arg' = "none"
        /\ res' = r.ret
        /\ calls' = r.calls
        /\ panicked' = FALSE
        /\ UNCHANGED <<type_id, a, b>>

\* format!("{:?}", a)
Fmt ==
    LET r == fmt(a, <<>>)
    IN  /\ op' = "fmt"
        /\ arg' = "none"
        /\ res' = r.out
        /\ calls' = r.calls
        /\ panicked' = r.panic
        /\ UNCHANGED <<type_id, a, b>>

\* a.downcast_static::<T>()
DowncastStatic ==
    \E T \in Types :
        /\ op' = "downcast_static"
        /\ arg' = T
        /\ res' = downcast_static(a, T)
        /\ calls' = <<>>
        /\ panicked' = FALSE
        /\ UNCHANGED <<type_id, a, b>>

\* a.downcast_dyn::<T>()
DowncastDyn ==
    \E T \in Types :
        /\ op' = "downcast_dyn"
        /\ arg' = T
        /\ res' = downcast_dyn(a, T)
        /\ calls' = <<>>
        /\ panicked' = FALSE
        /\ UNCHANGED <<type_id, a, b>>

Next ==
    \/ Eq
    \/ Cmp
    \/ PartialCmp
    \/ Hash
    \/ Clone
    \/ Fmt
    \/ DowncastStatic
    \/ DowncastDyn

Spec == Init /\ [][Next]_vars

----------------------------------------------------------------------------
\* Properties.

PairOp == op \in {"eq", "cmp", "partial_cmp", "hash"}

\* The calls of the last operation that went to a dynamic namespace's
\* dyn_eq or dyn_cmp.
SameTypeCalls == {i \in 1..Len(calls) : calls[i].fn \in {"dyn_eq", "dyn_cmp"}}

\* C1. Hash/equality consistency: whenever a and b compare equal, hashing
\* them with two hashers of the same build feeds both hashers the same
\* sequence of writes (so the hash values agree).
C1_HashEqConsistent ==
    (op = "hash" /\ eq(a, b).ret) => res.hasher_a = res.hasher_b

\* Two equal symbols of different namespace values were hashed.
C1_Witness ==
    /\ op = "hash"
    /\ eq(a, b).ret
    /\ a # b
    /\ Len(res.hasher_a) = 2

\* C2. Equality is an equivalence relation: eq(a,a) holds, eq(a,b) is
\* eq(b,a), and eq(a,b) with eq(b,c) gives eq(a,c), for every symbol c.
C2_EqEquivalence ==
    op = "eq" =>
        /\ eq(a, a).ret
        /\ eq(b, b).ret
        /\ res = eq(b, a).ret
        /\ \A c \in Symbols : (res /\ eq(b, c).ret) => eq(a, c).ret

\* Two different symbol values compared equal.
C2_Witness ==
    /\ op = "eq"
    /\ res = TRUE
    /\ a # b
    /\ eq(b, a).ret

\* C3. Ordering is consistent with equality: cmp(a,b) is Equal exactly
\* when eq(a,b) is true.
C3_CmpConsistentWithEq ==
    op = "cmp" => ((res = "Equal") <=> eq(a, b).ret)

\* Two static symbols with the same id in different namespace types were
\* compared.
C3_Witness ==
    /\ op = "cmp"
    /\ IsStatic(a) /\ IsStatic(b)
    /\ a.id = b.id
    /\ a.ns.type # b.ns.type
    /\ res # "Equal"

\* C4. Cross-variant rule: a Static and a Dynamic symbol are never equal, in
\* either order; the Static one is Less and the Dynamic one Greater; and
\* no call through a trait object is made to decide it.
C4_CrossVariant ==
    (op \in {"eq", "cmp"} /\ a.variant # b.variant) =>
        /\ calls = <<>>
        /\ ~panicked
        /\ op = "eq" => (res = FALSE /\ eq(b, a).ret = FALSE)
        /\ op = "cmp" =>
            /\ res = (IF IsStatic(a) THEN "Less" ELSE "Greater")
            /\ cmp(b, a).ret = (IF IsStatic(a) THEN "Greater" ELSE "Less")
            /\ cmp(b, a).calls = <<>>

\* A Static symbol was compared with a Dynamic symbol whose type_id is the
\* smaller one.
C4_Witness ==
    /\ op = "cmp"
    /\ IsStatic(a) /\ IsDynamic(b)
    /\ TypeIdOf(b.instance) < TypeIdOf(a.ns)
    /\ res = "Less"

\* C5. Static symbols are discriminated by (namespace type, id) only: they
\* are equal iff the namespace types and the ids match, whatever the
\* namespaces hold; cmp orders by the namespace's type_id first and by id
\* only within one namespace type.
C5_StaticDiscrimination ==
    (IsStatic(a) /\ IsStatic(b)) =>
        /\ op = "eq" => (res = (a.ns.type = b.ns.type /\ a.id = b.id))
        /\ op = "cmp" =>
            res = (IF a.ns.type = b.ns.type
                   THEN int_cmp(a.id, b.id)
                   ELSE int_cmp(type_id[a.ns.type], type_id[b.ns.type]))
        /\ op \in {"eq", "cmp"} =>
            \A i \in 1..Len(calls) : calls[i].fn = "type_id"

\* Two static symbols of one namespace type but different namespace content
\* compared equal.
C5_Witness ==
    /\ op = "eq"
    /\ IsStatic(a) /\ IsStatic(b)
    /\ a.ns # b.ns
    /\ a.ns.type = b.ns.type
    /\ res = TRUE

\* C6. Dynamic symbols are discriminated by concrete type first: with
\* different types they are never equal and cmp is the order of the
\* type_ids, with no dyn_eq or dyn_cmp call; with the same type eq returns
\* what the one dyn_eq call returned and cmp what the one dyn_cmp call
\* returned.
C6_DynamicDiscrimination ==
    (IsDynamic(a) /\ IsDynamic(b) /\ op \in {"eq", "cmp"}) =>
        IF a.instance.type # b.instance.type
        THEN /\ SameTypeCalls = {}
             /\ op = "eq" => res = FALSE
             /\ op = "cmp" =>
                 /\ res = int_cmp(type_id[a.instance.type], type_id[b.instance.type])
                 /\ res # "Equal"
        ELSE /\ Cardinality(SameTypeCalls) = 1
             /\ LET c == calls[Len(calls)]
                IN  /\ c.fn = (IF op = "eq" THEN "dyn_eq" ELSE "dyn_cmp")
                    /\ c.args = <<a.instance, b.instance>>
                    /\ c.ret = <<res>>

\* Two dynamic symbols of different types holding the same string were
\* compared for equality.
C6_Witness ==
    /\ op = "eq"
    /\ IsDynamic(a) /\ IsDynamic(b)
    /\ a.instance.type # b.instance.type
    /\ a.instance.f0 = b.instance.f0
    /\ Len(a.instance.f0) > 0
    /\ res = FALSE

\* C7. Same-type precondition: every dyn_eq or dyn_cmp call made by eq,
\* cmp, partial_cmp or hash has a self and an rhs of the same concrete
\* type, comes after the type_id of both was fetched and found equal, and
\* so never panics in its downcast.
C7_SameTypePrecondition ==
    PairOp =>
        /\ ~panicked
        /\ \A i \in SameTypeCalls :
            /\ calls[i].args[1].type = calls[i].args[2].type
            /\ i = 3
            /\ calls[1].fn = "type_id" /\ calls[1].args = <<calls[i].args[1]>>
            /\ calls[2].fn = "type_id" /\ calls[2].args = <<calls[i].args[2]>>
            /\ calls[1].ret = calls[2].ret

\* dyn_eq was called, on two dynamic instances.
C7_Witness ==
    /\ op = "eq"
    /\ IsDynamic(a) /\ IsDynamic(b)
    /\ SameTypeCalls # {}
    /\ a # b

\* C8. Clone fidelity: the clone of a is equal to a and of the same
\* variant; a Static clone has the same namespace and id and makes no
\* call, a Dynamic clone is what the one dyn_clone call on a's instance
\* returned; and cloning leaves a as it was.
C8_CloneFidelity ==
    /\ [](op = "clone" =>
            /\ eq(a, res).ret
            /\ eq(res, a).ret
            /\ res.variant = a.variant
            /\ IsStatic(a) => (res.ns = a.ns /\ res.id = a.id /\ calls = <<>>)
            /\ IsDynamic(a) =>
                /\ Len(calls) = 1
                /\ calls[1].fn = "dyn_clone"
                /\ calls[1].args = <<a.instance>>
                /\ calls[1].ret = <<res.instance>>)
    /\ [][op' = "clone" => a' = a]_vars

\* A Dynamic symbol with a non-empty string was cloned.
C8_Witness ==
    /\ op = "clone"
    /\ IsDynamic(a)
    /\ Len(a.instance.f0) > 0
    /\ res = a

\* C9. Downcasts: downcast_static::<T> is present iff a is Static and its
\* namespace's type is T, and then holds that namespace and a's id;
\* downcast_dyn::<T> is present iff a is Dynamic and its instance's type is
\* T, and then holds that instance; otherwise the result is absent; neither
\* panics.
C9_Downcast ==
    /\ op = "downcast_static" =>
        /\ ~panicked
        /\ res.some <=> (IsStatic(a) /\ a.ns.type = arg)
        /\ res.val = (IF res.some THEN <<a.ns, a.id>> ELSE <<>>)
    /\ op = "downcast_dyn" =>
        /\ ~panicked
        /\ res.some <=> (IsDynamic(a) /\ a.instance.type = arg)
        /\ res.val = (IF res.some THEN <<a.instance>> ELSE <<>>)

\* A Static symbol was downcast to a static namespace type that is not its
\* own, and the result was absent.
C9_Witness ==
    /\ op = "downcast_static"
    /\ IsStatic(a)
    /\ arg \in StaticTypes
    /\ arg # a.ns.type
    /\ res.some = FALSE

\* C10. Debug format: the output is the namespace name, then "::", then the
\* symbol name and nothing else; the names are those the symbol's own
\* namespace (Static: symbol_name(id)) or instance (Dynamic) returns. When
\* the static namespace's symbol_name panics on the id, nothing is written.
C10_DebugFormat ==
    op = "fmt" =>
        /\ Len(calls) = 2
        /\ calls[1].fn = "namespace_name"
        /\ calls[2].fn = "symbol_name"
        /\ IF IsStatic(a)
           THEN /\ calls[1].args = <<a.ns>>
                /\ calls[2].args = <<a.ns, a.id>>
                /\ panicked <=> (a.id >= Len(a.ns.names))
           ELSE /\ calls[1].args = <<a.instance>>
                /\ calls[2].args = <<a.instance>>
                /\ ~panicked
        /\ res = (IF panicked
                  THEN <<>>
                  ELSE calls[1].ret[1] \o <<58, 58>> \o calls[2].ret[1])

\* The static symbol (STATIC_NS_CLASS_A, 0) was formatted as "A::0".
C10_Witness ==
    /\ op = "fmt"
    /\ a = Static(STATIC_NS_CLASS_A, 0)
    /\ res = <<65, 58, 58, 48>>

\* Ordering::reverse
Reverse(o) == IF o = "Less" THEN "Greater" ELSE IF o = "Greater" THEN "Less" ELSE o

\* C11. cmp is a total order over all symbols: cmp(a,b) is the reverse of
\* cmp(b,a); cmp(a,b) Less and cmp(b,c) Less give cmp(a,c) Less, for every
\* symbol c; and partial_cmp(a,b) is always present and holds cmp(a,b).
C11_CmpTotalOrder ==
    /\ op = "cmp" =>
        /\ ~panicked
        /\ res \in {"Less", "Equal", "Greater"}
        /\ res = Reverse(cmp(b, a).ret)
        /\ \A c \in Symbols :
            (res = "Less" /\ cmp(b, c).ret = "Less") => cmp(a, c).ret = "Less"
    /\ op = "partial_cmp" =>
        /\ ~panicked
        /\ res.some
        /\ res.val = <<cmp(a, b).ret>>

\* A Static symbol was found Less than a Dynamic one, which is itself Less
\* than a Dynamic symbol of another type.
C11_Witness ==
    /\ op = "cmp"
    /\ IsStatic(a) /\ IsDynamic(b)
    /\ res = "Less"
    /\ \E c \in DynamicSymbols :
        /\ c.instance.type # b.instance.type
        /\ cmp(b, c).ret = "Less"
        /\ cmp(a, c).ret = "Less"

====
